---- MODULE Spec2Model ----
(***************************************************************************)
(* Endpoint descriptors and the signed peer document of duniterpy/ucoinpy. *)
(*                                                                         *)
(* A text line is modelled as the sequence of its pieces, the result of    *)
(* Python's line.split(" "): "BMAS a 1" is <<"BMAS", "a", "1">>, the empty *)
(* line is <<"">>, a line made of one space is <<"", "">>, and a trailing  *)
(* space shows as a last piece "".  The line is the pieces joined by one   *)
(* space, so no information is lost.                                       *)
(***************************************************************************)
EXTENDS Integers, Sequences, FiniteSets, TLC

VARIABLES op, arg, ret, pc

vars == <<op, arg, ret, pc>>

(***************************************************************************)
(* Bounds of the model.                                                    *)
(***************************************************************************)
MaxPieces == 2
MaxProperties == 2
MaxEndpoints == 2
MaxSignatures == 2

(***************************************************************************)
(* Python values.                                                          *)
(***************************************************************************)
\* Python's None in a string-valued attribute.
None == "<None>"
\* An attribute the class does not have.
NA == "<n/a>"

\* Python truthiness of a str-or-None value.
Truthy(s) == s # None /\ s # ""

\* The decimal tokens of the model and int(token): "080" and "80" both give 80.
DigitTokens == {"0", "1", "80", "080", "9001"}
int(t) == CASE t = "0" -> 0
            [] t = "1" -> 1
            [] t = "80" -> 80
            [] t = "080" -> 80
            [] t = "9001" -> 9001
\* str(port), "{0}".format(port)
str(n) == CASE n = 0 -> "0"
            [] n = 1 -> "1"
            [] n = 80 -> "80"
            [] n = 9001 -> "9001"
Ports == {0, 80, 9001}

(***************************************************************************)
(* Tokens and the field patterns of the grammars.                          *)
(***************************************************************************)
BMA_API == "BASIC_MERKLED_API"
BMAS_API == "BMAS"
WS2P_API == "WS2P"
ES_CORE_API == "ES_CORE_API"
ES_USER_API == "ES_USER_API"
ES_SUBSCRIPTION_API == "ES_SUBSCRIPTION_API"

KnownTags == {BMA_API, BMAS_API, WS2P_API, ES_CORE_API, ES_USER_API, ES_SUBSCRIPTION_API}
UnknownTags == {"OTHER_PROTOCOL", "BMAS2", "WS2PX"}

DnsName == "some.dns.name"
GoodIPv4 == "88.77.66.55"
BadIPv4 == "999.1.1.1"
AnIPv6 == "2001:0db8:0000:85a3:0000:0000:ac1f"
AWs2pId == "abcd1234"
APath == "/api"
ASignature == "dkaXIiCYUJtCg8Feh/BKvPYf4uFH9CJ/zY6J4MlA9BsjmcMe4YAblvNt/gJy31b1aGq3ue3h14mLMCu84rraDg=="
BSignature == "Zm9vYmFyZm9vYmFyZm9vYmFyZm9vYmFyZm9vYmFyZm9vYmFyZm9vYmFyZm9vYmFyZm9vYmFyZm9vYmFyZm9vYg=="

Tokens == {""} \cup KnownTags \cup UnknownTags \cup DigitTokens
          \cup {DnsName, GoodIPv4, BadIPv4, AnIPv6, AWs2pId, APath, ASignature}

\* host: a DNS-hostname-shaped token, dot-separated labels of letters, digits
\* and hyphens.  The shape does not exclude all-numeric labels.
IsHost(t) == t \in {DnsName, GoodIPv4, BadIPv4, AWs2pId} \cup DigitTokens
\* IPv4: four dot-separated octets, each 0-255.
IsIPv4(t) == t \in {GoodIPv4}
\* IPv6: colon-separated hextets.
IsIPv6(t) == t \in {AnIPv6}
\* peer-id: a fixed-width identifier token.
IsWs2pId(t) == t \in {AWs2pId}
\* path: a URL-path-shaped token.
IsPath(t) == t \in {APath}
\* [0-9]+
IsDigits(t) == t \in DigitTokens

InClass(t, cls) ==
    CASE cls = "host" -> IsHost(t)
      [] cls = "ipv4" -> IsIPv4(t)
      [] cls = "ipv6" -> IsIPv6(t)
      [] cls = "host|ipv4" -> IsHost(t) \/ IsIPv4(t)
      [] cls = "ws2pid" -> IsWs2pId(t)
      [] cls = "path" -> IsPath(t)
      [] cls = "digits" -> IsDigits(t)
      \* " ([0-9]+)?": the space is required, the digits are not
      [] cls = "digits?" -> IsDigits(t) \/ t = ""

(***************************************************************************)
(* re.match of an anchored pattern "^TAG( g1)( g2)...$" on a line.         *)
(* A group takes one piece.  An optional group "(?: (g))?" is tried        *)
(* present first and skipped on backtracking; a skipped group is None, as  *)
(* is the empty match of "([0-9]+)?".                                      *)
(***************************************************************************)
NoMatch == [matched |-> FALSE, groups |-> <<>>]
Matched(gs) == [matched |-> TRUE, groups |-> gs]
Group(cls, optional) == [cls |-> cls, optional |-> optional]

RECURSIVE MatchGroups(_, _)
MatchGroups(pieces, pattern) ==
    IF pattern = <<>>
    THEN IF pieces = <<>> THEN Matched(<<>>) ELSE NoMatch
    ELSE LET g == Head(pattern)
             skip == IF g.optional
                     THEN LET m == MatchGroups(pieces, Tail(pattern))
                          IN  IF m.matched THEN Matched(<<None>> \o m.groups) ELSE NoMatch
                     ELSE NoMatch
         IN  IF pieces # <<>> /\ InClass(Head(pieces), g.cls)
             THEN LET m == MatchGroups(Tail(pieces), Tail(pattern))
                      got == IF Head(pieces) = "" THEN None ELSE Head(pieces)
                  IN  IF m.matched THEN Matched(<<got>> \o m.groups) ELSE skip
             ELSE skip

re_match(tag, pattern, inline) ==
    IF inline[1] = tag THEN MatchGroups(Tail(inline), pattern) ELSE NoMatch

(***************************************************************************)
(* Endpoint values and results.                                            *)
(***************************************************************************)
Ep(type, server, ipv4, ipv6, port, path, ws2pid, api, properties) ==
    [type |-> type, server |-> server, ipv4 |-> ipv4, ipv6 |-> ipv6, port |-> port,
     path |-> path, ws2pid |-> ws2pid, api |-> api, properties |-> properties]

UnknownEndpoint(api, properties) == Ep("UnknownEndpoint", NA, NA, NA, 0, NA, NA, api, properties)
BMAEndpoint(server, ipv4, ipv6, port) == Ep("BMAEndpoint", server, ipv4, ipv6, port, NA, NA, NA, <<>>)
SecuredBMAEndpoint(server, ipv4, ipv6, port, path) ==
    Ep("SecuredBMAEndpoint", server, ipv4, ipv6, port, path, NA, NA, <<>>)
WS2PEndpoint(ws2pid, server, port, path) == Ep("WS2PEndpoint", server, NA, NA, port, path, ws2pid, NA, <<>>)
ESCoreEndpoint(server, port) == Ep("ESCoreEndpoint", server, NA, NA, port, NA, NA, NA, <<>>)
ESUserEndpoint(server, port) == Ep("ESUserEndpoint", server, NA, NA, port, NA, NA, NA, <<>>)
ESSubscribtionEndpoint(server, port) == Ep("ESSubscribtionEndpoint", server, NA, NA, port, NA, NA, NA, <<>>)

NoValue == Ep("<none>", NA, NA, NA, 0, NA, NA, NA, <<>>)
Return(e) == [raised |-> "", value |-> e]
Raise(exc) == [raised |-> exc, value |-> NoValue]

ConnectionHandler(http_scheme, ws_scheme, server, port, path) ==
    [http_scheme |-> http_scheme, ws_scheme |-> ws_scheme, server |-> server,
     port |-> port, path |-> path]

\* str.split(): the non-empty pieces
split(inline) == SelectSeq(inline, LAMBDA t : t # "")
\* " ".join(list), as pieces
join(list) == IF list = <<>> THEN <<"">> ELSE list
\* [str(info) for info in fields if info], for str-or-None fields
IfTruthy(s) == IF Truthy(s) THEN <<s>> ELSE <<>>
\* the same for the port
IfPort(port) == IF port # 0 THEN <<str(port)>> ELSE <<>>

(***************************************************************************)
(* UnknownEndpoint                                                         *)
(***************************************************************************)
\* the line cut at every single space: inline.split(" ")
UnknownEndpoint_from_inline_single_space(inline) ==
    Return(UnknownEndpoint(Head(inline), Tail(inline)))

UnknownEndpoint_from_inline(inline) ==
    IF split(inline) = <<>>
    THEN Raise("MalformedDocumentError")
    ELSE Return(UnknownEndpoint(Head(split(inline)), Tail(split(inline))))

UnknownEndpoint_inline(self) == <<self.api>> \o self.properties

UnknownEndpoint_conn_handler(self) == Return(ConnectionHandler("", "", "", 0, ""))

UnknownEndpoint_eq(self, other) ==
    IF other.type = "UnknownEndpoint"
    THEN self.api = other.api /\ self.properties = other.properties
    ELSE FALSE

(***************************************************************************)
(* BMAEndpoint                                                             *)
(***************************************************************************)
BMAEndpoint_re_inline ==
    <<Group("host", TRUE), Group("ipv4", TRUE), Group("ipv6", TRUE), Group("digits", FALSE)>>

BMAEndpoint_from_inline(inline) ==
    LET m == re_match(BMA_API, BMAEndpoint_re_inline, inline)
    IN  IF ~m.matched
        THEN Raise("MalformedDocumentError")
        ELSE Return(BMAEndpoint(m.groups[1], m.groups[2], m.groups[3], int(m.groups[4])))

BMAEndpoint_inline(self) ==
    <<BMA_API>> \o IfTruthy(self.server) \o IfTruthy(self.ipv4) \o IfTruthy(self.ipv6)
               \o IfPort(self.port)

BMAEndpoint_conn_handler(self) ==
    IF Truthy(self.server)
    THEN Return(ConnectionHandler("http", "ws", self.server, self.port, ""))
    ELSE IF Truthy(self.ipv6)
    THEN Return(ConnectionHandler("http", "ws", "[" \o self.ipv6 \o "]", self.port, ""))
    ELSE Return(ConnectionHandler("http", "ws", self.ipv4, self.port, ""))

\* isinstance(other, BMAEndpoint) holds for the subclass SecuredBMAEndpoint too
isinstance_BMAEndpoint(other) == other.type \in {"BMAEndpoint", "SecuredBMAEndpoint"}

BMAEndpoint_eq(self, other) ==
    IF isinstance_BMAEndpoint(other)
    THEN self.server = other.server /\ self.ipv4 = other.ipv4
         /\ self.ipv6 = other.ipv6 /\ self.port = other.port
    ELSE FALSE

(***************************************************************************)
(* SecuredBMAEndpoint(BMAEndpoint): __eq__ is inherited                    *)
(***************************************************************************)
SecuredBMAEndpoint_re_inline ==
    <<Group("host", TRUE), Group("ipv4", TRUE), Group("ipv6", TRUE), Group("digits", FALSE),
      Group("path", TRUE)>>

\* SecuredBMAEndpoint.from_inline handing the path group on as matched
SecuredBMAEndpoint_from_inline_raw_path(inline) ==
    LET m == re_match(BMAS_API, SecuredBMAEndpoint_re_inline, inline)
    IN  IF ~m.matched
        THEN Raise("MalformedDocumentError")
        ELSE Return(SecuredBMAEndpoint(m.groups[1], m.groups[2], m.groups[3], int(m.groups[4]),
                                       m.groups[5]))

SecuredBMAEndpoint_from_inline(inline) ==
    LET m == re_match(BMAS_API, SecuredBMAEndpoint_re_inline, inline)
    IN  IF ~m.matched
        THEN Raise("MalformedDocumentError")
        ELSE Return(SecuredBMAEndpoint(m.groups[1], m.groups[2], m.groups[3], int(m.groups[4]),
                                       IF Truthy(m.groups[5]) THEN m.groups[5] ELSE ""))

SecuredBMAEndpoint_inline(self) ==
    <<BMAS_API>> \o join(IfTruthy(self.server) \o IfTruthy(self.ipv4) \o IfTruthy(self.ipv6)
                         \o IfPort(self.port) \o IfTruthy(self.path))

\* the IPv4 literal preferred to the IPv6 literal
SecuredBMAEndpoint_conn_handler_ipv4_first(self) ==
    IF Truthy(self.server)
    THEN Return(ConnectionHandler("https", "wss", self.server, self.port, self.path))
    ELSE IF Truthy(self.ipv4)
    THEN Return(ConnectionHandler("https", "wss", self.ipv4, self.port, self.path))
    ELSE Return(ConnectionHandler("https", "wss", "[" \o self.ipv6 \o "]", self.port, self.path))

SecuredBMAEndpoint_conn_handler(self) ==
    IF Truthy(self.server)
    THEN Return(ConnectionHandler("https", "wss", self.server, self.port, self.path))
    ELSE IF Truthy(self.ipv6)
    THEN Return(ConnectionHandler("https", "wss", "[" \o self.ipv6 \o "]", self.port, self.path))
    ELSE Return(ConnectionHandler("https", "wss", self.ipv4, self.port, self.path))

(***************************************************************************)
(* WS2PEndpoint                                                            *)
(***************************************************************************)
WS2PEndpoint_re_inline ==
    <<Group("ws2pid", FALSE), Group("host|ipv4", FALSE), Group("digits?", FALSE),
      Group("path", TRUE)>>

WS2PEndpoint_from_inline(inline) ==
    LET m == re_match(WS2P_API, WS2PEndpoint_re_inline, inline)
    IN  IF ~m.matched
        THEN Raise("MalformedDocumentError")
        ELSE IF m.groups[3] = None
        THEN Raise("TypeError")                     \* int(None)
        ELSE Return(WS2PEndpoint(m.groups[1], m.groups[2], int(m.groups[3]),
                                 IF Truthy(m.groups[4]) THEN m.groups[4] ELSE ""))

WS2PEndpoint_inline(self) ==
    <<WS2P_API>> \o join(IfTruthy(self.ws2pid) \o IfTruthy(self.server) \o IfPort(self.port)
                         \o IfTruthy(self.path))

\* the insecure scheme pair
WS2PEndpoint_conn_handler_insecure(self) ==
    Return(ConnectionHandler("http", "ws", self.server, self.port, self.path))

WS2PEndpoint_conn_handler(self) ==
    Return(ConnectionHandler("https", "wss", self.server, self.port, self.path))

WS2PEndpoint_eq(self, other) ==
    IF other.type = "WS2PEndpoint"
    THEN self.server = other.server /\ self.ws2pid = other.ws2pid
         /\ self.port = other.port /\ self.path = other.path
    ELSE FALSE

(***************************************************************************)
(* ESCoreEndpoint, ESUserEndpoint, ESSubscribtionEndpoint                  *)
(***************************************************************************)
ES_re_inline == <<Group("host|ipv4", FALSE), Group("digits", FALSE)>>

ESCoreEndpoint_from_inline(inline) ==
    LET m == re_match(ES_CORE_API, ES_re_inline, inline)
    IN  IF ~m.matched
        THEN Raise("MalformedDocumentError")
        ELSE Return(ESCoreEndpoint(m.groups[1], int(m.groups[2])))

ESUserEndpoint_from_inline(inline) ==
    LET m == re_match(ES_USER_API, ES_re_inline, inline)
    IN  IF ~m.matched
        THEN Raise("MalformedDocumentError")
        ELSE Return(ESUserEndpoint(m.groups[1], int(m.groups[2])))

ESSubscribtionEndpoint_from_inline(inline) ==
    LET m == re_match(ES_SUBSCRIPTION_API, ES_re_inline, inline)
    IN  IF ~m.matched
        THEN Raise("MalformedDocumentError")
        ELSE Return(ESSubscribtionEndpoint(m.groups[1], int(m.groups[2])))

ESCoreEndpoint_inline(self) == <<ES_CORE_API>> \o join(IfTruthy(self.server) \o IfPort(self.port))
ESUserEndpoint_inline(self) == <<ES_USER_API>> \o join(IfTruthy(self.server) \o IfPort(self.port))
ESSubscribtionEndpoint_inline(self) ==
    <<ES_SUBSCRIPTION_API>> \o join(IfTruthy(self.server) \o IfPort(self.port))

ES_conn_handler(self) == Return(ConnectionHandler("https", "wss", self.server, self.port, ""))

ES_eq(self, other) ==
    IF other.type = self.type
    THEN self.server = other.server /\ self.port = other.port
    ELSE FALSE

(***************************************************************************)
(* Method dispatch on the class of the instance.                           *)
(***************************************************************************)
inline(self) ==
    CASE self.type = "UnknownEndpoint" -> UnknownEndpoint_inline(self)
      [] self.type = "BMAEndpoint" -> BMAEndpoint_inline(self)
      [] self.type = "SecuredBMAEndpoint" -> SecuredBMAEndpoint_inline(self)
      [] self.type = "WS2PEndpoint" -> WS2PEndpoint_inline(self)
      [] self.type = "ESCoreEndpoint" -> ESCoreEndpoint_inline(self)
      [] self.type = "ESUserEndpoint" -> ESUserEndpoint_inline(self)
      [] self.type = "ESSubscribtionEndpoint" -> ESSubscribtionEndpoint_inline(self)

conn_handler(self) ==
    CASE self.type = "UnknownEndpoint" -> UnknownEndpoint_conn_handler(self)
      [] self.type = "BMAEndpoint" -> BMAEndpoint_conn_handler(self)
      [] self.type = "SecuredBMAEndpoint" -> SecuredBMAEndpoint_conn_handler(self)
      [] self.type = "WS2PEndpoint" -> WS2PEndpoint_conn_handler(self)
      [] self.type \in {"ESCoreEndpoint", "ESUserEndpoint", "ESSubscribtionEndpoint"}
           -> ES_conn_handler(self)

eq(self, other) ==
    CASE self.type = "UnknownEndpoint" -> UnknownEndpoint_eq(self, other)
      [] self.type \in {"BMAEndpoint", "SecuredBMAEndpoint"} -> BMAEndpoint_eq(self, other)
      [] self.type = "WS2PEndpoint" -> WS2PEndpoint_eq(self, other)
      [] self.type \in {"ESCoreEndpoint", "ESUserEndpoint", "ESSubscribtionEndpoint"}
           -> ES_eq(self, other)

\* __str__: self.inline() in the known variants, "{api} {properties}" in
\* UnknownEndpoint (with no property the text ends with a space)
Endpoint_str(self) ==
    IF self.type = "UnknownEndpoint"
    THEN <<self.api>> \o (IF self.properties = <<>> THEN <<"">> ELSE self.properties)
    ELSE inline(self)

\* __hash__: the hash of a tuple of fields, kept as the tuple; a tuple holding
\* the properties list is unhashable
Endpoint_hash(self) ==
    CASE self.type = "UnknownEndpoint" -> Raise("TypeError")
      [] self.type \in {"BMAEndpoint", "SecuredBMAEndpoint"}
           -> Return(<<self.server, self.ipv4, self.ipv6, str(self.port)>>)
      [] self.type = "WS2PEndpoint"
           -> Return(<<self.ws2pid, self.server, str(self.port), self.path>>)
      [] self.type \in {"ESCoreEndpoint", "ESUserEndpoint"}
           -> Return(<<self.server, str(self.port)>>)
      [] self.type = "ESSubscribtionEndpoint"
           -> Return(<<ES_SUBSCRIPTION_API, self.server, str(self.port)>>)

(***************************************************************************)
(* Method calls on live instances.  objects holds the fields of the        *)
(* instances, a reference is an index into it; a call gives the objects    *)
(* after it and its result.                                                *)
(***************************************************************************)
Methods == {"inline", "__str__", "__eq__", "__hash__", "conn_handler", "endpoint"}

Called(objects, method, self, other, result) ==
    [objects |-> objects, method |-> method, self |-> self, other |-> other,
     result |-> result]

\* the instances after __init__, nothing called yet
Constructed(objects) == Called(objects, "__init__", 0, 0, NoValue)

\* conn_handler that also settles an absent path on the instance
call_normalising(objects, method, self, other) ==
    CASE method = "inline" -> Called(objects, method, self, 0, Return(inline(objects[self])))
      [] method = "__str__" -> Called(objects, method, self, 0, Return(Endpoint_str(objects[self])))
      [] method = "__eq__" ->
           Called(objects, method, self, other, Return(eq(objects[self], objects[other])))
      [] method = "__hash__" -> Called(objects, method, self, 0, Endpoint_hash(objects[self]))
      [] method = "conn_handler" ->
           Called([objects EXCEPT ![self].path = IF @ = None THEN "" ELSE @],
                  method, self, 0, conn_handler(objects[self]))
      [] method = "endpoint" -> Called(objects, method, self, 0, Return([ref |-> self]))

\* a method of the instance objects[self], or endpoint(objects[self]); none of
\* them assigns an attribute, and endpoint(value) returns the reference given
call(objects, method, self, other) ==
    CASE method = "inline" -> Called(objects, method, self, 0, Return(inline(objects[self])))
      [] method = "__str__" -> Called(objects, method, self, 0, Return(Endpoint_str(objects[self])))
      [] method = "__eq__" ->
           Called(objects, method, self, other, Return(eq(objects[self], objects[other])))
      [] method = "__hash__" -> Called(objects, method, self, 0, Endpoint_hash(objects[self]))
      [] method = "conn_handler" -> Called(objects, method, self, 0, conn_handler(objects[self]))
      [] method = "endpoint" -> Called(objects, method, self, 0, Return([ref |-> self]))

(***************************************************************************)
(* MANAGED_API and endpoint(value) for a str value.                        *)
(***************************************************************************)
MANAGED_API == <<BMA_API, BMAS_API, WS2P_API, ES_CORE_API, ES_USER_API, ES_SUBSCRIPTION_API>>

from_inline(api, value) ==
    CASE api = BMA_API -> BMAEndpoint_from_inline(value)
      [] api = BMAS_API -> SecuredBMAEndpoint_from_inline(value)
      [] api = WS2P_API -> WS2PEndpoint_from_inline(value)
      [] api = ES_CORE_API -> ESCoreEndpoint_from_inline(value)
      [] api = ES_USER_API -> ESUserEndpoint_from_inline(value)
      [] api = ES_SUBSCRIPTION_API -> ESSubscribtionEndpoint_from_inline(value)

\* value.startswith(api): the test without the space, which a longer token passes
startswith_prefix(value, api) ==
    \/ value[1] = api
    \/ <<api, value[1]>> \in {<<BMAS_API, "BMAS2">>, <<WS2P_API, "WS2PX">>}

\* value.startswith(api + " "): the first piece is api and a space follows it
startswith(value, api) == value[1] = api /\ Len(value) >= 2

\* the entries of MANAGED_API whose test succeeds; the loop returns at the first
Hits(value) == {i \in 1..Len(MANAGED_API) : startswith(value, MANAGED_API[i])}

endpoint(value) ==
    IF Hits(value) # {}
    THEN from_inline(MANAGED_API[CHOOSE i \in Hits(value) : \A j \in Hits(value) : i <= j], value)
    ELSE UnknownEndpoint_from_inline(value)

(***************************************************************************)
(* API (client.py): a module of requests on a connection handler.  A URL   *)
(* is kept as the sequence of the parts that str.format and + put          *)
(* together; concat(url) is the string.                                      *)
(***************************************************************************)
API(connection_handler, module) ==
    [connection_handler |-> connection_handler, module |-> module]

\* "{0}".format(x)
format(x) == IF x = None THEN "None" ELSE x

RECURSIVE concat(_)
concat(parts) == IF parts = <<>> THEN "" ELSE Head(parts) \o concat(Tail(parts))

API_reverse_url(self, scheme, path) ==
    LET server == self.connection_handler.server
        port == self.connection_handler.port
        url == IF Truthy(self.connection_handler.path)
               THEN <<scheme, "://", format(server), ":", str(port), "/", path, "/",
                      self.module>>
               ELSE <<scheme, "://", format(server), ":", str(port), "/", self.module>>
    IN  Append(url, path)

(***************************************************************************)
(* Error bodies (client.py).  A body is a text that json.loads decodes or  *)
(* not; the decoded value is kept by its JSON type and, for an object, by  *)
(* the JSON type of its ucode and message members ("absent" when the       *)
(* object has no such member).                                             *)
(***************************************************************************)
Body(is_json, type, ucode, message) ==
    [is_json |-> is_json, type |-> type, ucode |-> ucode, message |-> message]

ERROR_SCHEMA ==
    [type |-> "object",
     properties |-> [ucode |-> "number", message |-> "string"],
     required |-> {"ucode", "message"}]

RaiseWith(exc, value) == [raised |-> exc, value |-> value]

\* json.loads(text)
json_loads(text) ==
    IF text.is_json
    THEN Return([type |-> text.type, ucode |-> text.ucode, message |-> text.message])
    ELSE Raise("JSONDecodeError")

\* jsonschema.validate(data, schema)
jsonschema_validate(data, schema) ==
    IF /\ data.type = schema.type
       /\ \A k \in schema.required : data[k] # "absent"
       /\ \A k \in DOMAIN schema.properties : data[k] \in {"absent", schema.properties[k]}
    THEN Return(data)
    ELSE Raise("ValidationError")

\* parse_error returning whatever json.loads decoded
parse_error_unvalidated(text) ==
    LET data == json_loads(text)
    IN  IF data.raised \in {"TypeError", "JSONDecodeError"}
        THEN Raise("ValidationError")
        ELSE data

parse_error(text) ==
    LET data == json_loads(text)
    IN  IF data.raised \in {"TypeError", "JSONDecodeError"}
        THEN Raise("ValidationError")
        ELSE IF jsonschema_validate(data.value, ERROR_SCHEMA).raised # ""
        THEN jsonschema_validate(data.value, ERROR_SCHEMA)
        ELSE data

\* the exception classes DuniterError derives from (duniterpy/api/errors.py)
DuniterError_bases == {"Exception"}

\* response is what session.get(url) answered
API_requests_get(self, path, response) ==
    IF response.status # 200
    THEN LET error_data == parse_error(response.text)
             raised == IF error_data.raised # "" THEN error_data
                       ELSE RaiseWith("DuniterError", error_data.value)
         IN  IF \/ raised.raised \in {"TypeError", "ValidationError"}
                \/ /\ raised.raised = "DuniterError"
                   /\ DuniterError_bases \cap {"TypeError", "ValidationError"} # {}
             THEN Raise("ValueError")
             ELSE raised
    ELSE Return(response)

(***************************************************************************)
(* Peer: the signed peer document.  The raw text is the sequence of its    *)
(* newline-terminated lines.                                               *)
(***************************************************************************)
ABlockId == "8-1922C324ABC4AF7EF7656734A31F5197888DDD52"
ACurrency == "beta_brousouf"
APubkey == "HsLShAtzXTVxeUtQd7yi5Z5Zh4zNvbu8sTEZ53nfKcqY"

Peer(version, currency, pubkey, blockid, endpoints, signatures) ==
    [version |-> version, currency |-> currency, pubkey |-> pubkey, blockid |-> blockid,
     endpoints |-> endpoints, signatures |-> signatures]

\* Block: <int>-<hex-string>
IsBlockId(t) == t \in {ABlockId}
\* a signature blob: one token of base64 characters
IsBase64Like(t) ==
    t \in {ASignature, BSignature, BMAS_API, WS2P_API, "BMAS2", "WS2PX", AWs2pId, APath}
          \cup DigitTokens
IsSignatureLine(line) == Len(line) = 1 /\ IsBase64Like(line[1])

\* the labeled header lines, in their fixed order, and the Endpoints: marker
HeaderOk(raw) ==
    /\ Len(raw) >= 6
    /\ Len(raw[1]) = 2 /\ raw[1][1] = "Version:" /\ IsDigits(raw[1][2])
    /\ raw[2] = <<"Type:", "Peer">>
    /\ Len(raw[3]) = 2 /\ raw[3][1] = "Currency:" /\ raw[3][2] # ""
    /\ Len(raw[4]) = 2 /\ raw[4][1] = "PublicKey:" /\ raw[4][2] # ""
    /\ Len(raw[5]) = 2 /\ raw[5][1] = "Block:" /\ IsBlockId(raw[5][2])
    /\ raw[6] = <<"Endpoints:">>

\* the lines before the first signature line are the endpoint lines
RECURSIVE EndpointRegion(_)
EndpointRegion(lines) ==
    IF lines = <<>> \/ IsSignatureLine(Head(lines))
    THEN <<>>
    ELSE <<Head(lines)>> \o EndpointRegion(Tail(lines))

Peer_from_signed_raw(raw) ==
    IF ~HeaderOk(raw)
    THEN Raise("MalformedDocumentError")
    ELSE LET body == SubSeq(raw, 7, Len(raw))
             eps == EndpointRegion(body)
             sigs == SubSeq(body, Len(eps) + 1, Len(body))
             parsed == [i \in 1..Len(eps) |-> endpoint(eps[i])]
         IN  IF \E i \in 1..Len(eps) : parsed[i].raised # ""
             THEN Raise(parsed[CHOOSE i \in 1..Len(eps) :
                                  /\ parsed[i].raised # ""
                                  /\ \A j \in 1..(i - 1) : parsed[j].raised = ""].raised)
             ELSE IF \E i \in 1..Len(sigs) : Len(sigs[i]) # 1 \/ sigs[i][1] = ""
             THEN Raise("MalformedDocumentError")
             ELSE Return(Peer(int(raw[1][2]), raw[3][2], raw[4][2], raw[5][2],
                              [i \in 1..Len(eps) |-> parsed[i].value],
                              [i \in 1..Len(sigs) |-> sigs[i][1]]))

Peer_signed_raw(self) ==
    << <<"Version:", str(self.version)>>, <<"Type:", "Peer">>,
       <<"Currency:", self.currency>>, <<"PublicKey:", self.pubkey>>,
       <<"Block:", self.blockid>>, <<"Endpoints:">> >>
    \o [i \in 1..Len(self.endpoints) |-> inline(self.endpoints[i])]
    \o [i \in 1..Len(self.signatures) |-> <<self.signatures[i]>>]

(***************************************************************************)
(* The inputs of the model.                                                *)
(***************************************************************************)
RECURSIVE SeqsUpTo(_, _)
SeqsUpTo(S, n) ==
    IF n = 0 THEN {<<>>}
    ELSE LET shorter == SeqsUpTo(S, n - 1)
         IN  shorter \cup {Append(q, x) : q \in shorter, x \in S}

\* the endpoints the constructors are called with
Endpoints ==
    {BMAEndpoint(s, a, b, p) :
        s \in {None, DnsName}, a \in {None, GoodIPv4}, b \in {None, AnIPv6}, p \in Ports}
    \cup {SecuredBMAEndpoint(x[1], x[2], x[3], p, h) :
        x \in {None, DnsName} \X {None, GoodIPv4} \X {None, AnIPv6},
        p \in Ports, h \in {None, "", APath}}
    \cup {WS2PEndpoint(AWs2pId, s, p, h) :
        s \in {DnsName, GoodIPv4}, p \in Ports, h \in {None, "", APath}}
    \cup {ESCoreEndpoint(s, p) : s \in {DnsName, GoodIPv4}, p \in Ports}
    \cup {ESUserEndpoint(s, p) : s \in {DnsName, GoodIPv4}, p \in Ports}
    \cup {ESSubscribtionEndpoint(s, p) : s \in {DnsName, GoodIPv4}, p \in Ports}
    \cup {UnknownEndpoint(t, ps) :
        t \in UnknownTags, ps \in SeqsUpTo({GoodIPv4, "9001"}, MaxProperties)}

\* the second instance of a pair of live instances
Others ==
    {e \in Endpoints : /\ e.port = 9001
                       /\ e.server \in {DnsName, NA}
                       /\ e.ipv4 \in {None, NA} /\ e.ipv6 \in {None, NA}
                       /\ e.path \in {None, NA}}

\* the connection handlers of the endpoints
Handlers == {conn_handler(e).value : e \in Endpoints}
\* the modules and the request paths of the requests; a request path is not
\* the path of a handler
Modules == {"tx", "network"}
RequestPaths == {"/history", "/peering"}
\* reverse_url(scheme, path) called on an API, with a scheme of its handler
UrlRequests ==
    {[self |-> API(h, m), scheme |-> sch, path |-> p] :
        h \in Handlers, m \in Modules, sch \in {"http", "https", "ws", "wss"},
        p \in RequestPaths}

\* the bodies of the responses: not JSON, JSON that is no object, and objects
\* with every combination of ucode and message
Bodies ==
    {Body(FALSE, "", "absent", "absent")}
    \cup {Body(TRUE, t, "absent", "absent") : t \in {"array", "number", "string", "null"}}
    \cup {Body(TRUE, "object", u, m) :
            u \in {"absent", "number", "string"}, m \in {"absent", "string", "number"}}
Statuses == {200, 400, 404, 500, 503}
Responses == {[status |-> st, text |-> b] : st \in Statuses, b \in Bodies}
\* requests_get(path) called on an API, and the response of the server
GetRequests ==
    {[self |-> API(conn_handler(e).value, "network"), path |-> p, response |-> r] :
        e \in Others, p \in RequestPaths, r \in Responses}

\* every line of at most MaxPieces pieces
ShortLines == SeqsUpTo(Tokens, MaxPieces) \ {<<>>}
\* the rendered endpoints
InlineLines == {inline(e) : e \in Endpoints}
\* a rendered endpoint with one piece replaced, one piece added at the end, the
\* last piece removed, or a space put in front
EditedLines ==
    UNION {{[l EXCEPT ![i] = t] : i \in 1..Len(l), t \in Tokens} : l \in InlineLines}
    \cup {Append(l, t) : l \in InlineLines, t \in Tokens}
    \cup {SubSeq(l, 1, Len(l) - 1) : l \in {k \in InlineLines : Len(k) >= 2}}
    \cup {<<"">> \o l : l \in InlineLines}
Lines == ShortLines \cup InlineLines \cup EditedLines


\* the lines put after the Endpoints: marker of a document
DocLines ==
    {<<BMA_API, DnsName, GoodIPv4, AnIPv6, "9001">>,
     <<BMA_API, DnsName, GoodIPv4, AnIPv6, "80">>,
     <<"OTHER_PROTOCOL", GoodIPv4, "9001">>,
     <<"BMAS2", DnsName, "80">>,
     <<BMAS_API, DnsName, "80", APath>>,
     <<WS2P_API, AWs2pId, DnsName, "9001">>,
     <<ES_USER_API, GoodIPv4, "9001">>,
     <<BMA_API, DnsName, "0">>,
     <<WS2P_API, AWs2pId, DnsName>>}
Header(version, type, marker) ==
    << <<"Version:", version>>, <<"Type:", type>>, <<"Currency:", ACurrency>>,
       <<"PublicKey:", APubkey>>, <<"Block:", ABlockId>>, <<marker>> >>
\* the sample document of the tests
rawpeer ==
    Header("1", "Peer", "Endpoints:")
    \o << <<BMA_API, DnsName, GoodIPv4, AnIPv6, "9001">>,
          <<BMA_API, DnsName, GoodIPv4, AnIPv6, "80">>,
          <<"OTHER_PROTOCOL", GoodIPv4, "9001">>,
          <<ASignature>> >>
RawDocuments ==
    {rawpeer} \cup
    {Header("1", "Peer", "Endpoints:") \o eps \o sigs :
        eps \in SeqsUpTo(DocLines, MaxEndpoints),
        sigs \in SeqsUpTo({<<ASignature>>, <<BSignature>>}, MaxSignatures)}
    \cup {h \o <<l, <<ASignature>> >> :
            h \in {Header("1", "Identity", "Endpoints:"), Header("1", "Peer", "Signatures:"),
                   Header("x", "Peer", "Endpoints:")},
            l \in DocLines}
    \cup {Header("1", "Peer", "Endpoints:") \o <<l, <<"BMAS2">>, <<ASignature>> >> : l \in DocLines}
    \cup {Header("1", "Peer", "Endpoints:") \o <<l, <<ASignature>>, k>> : l, k \in DocLines}

NoRet == Raise("<pending>")

(***************************************************************************)
(* The calls.                                                              *)
(***************************************************************************)
Init ==
    /\ pc = "call"
    /\ \/ op = "endpoint" /\ arg \in Lines
       \/ op = "inline_endpoint" /\ arg \in Endpoints
       \/ op = "conn_handler" /\ arg \in Endpoints
       \/ op = "from_signed_raw" /\ arg \in RawDocuments
       \/ op = "signed_raw_round_trip" /\ arg \in RawDocuments
       \/ op = "eq" /\ arg \in Endpoints \X Endpoints
       \/ op = "endpoint_conn_handler" /\ arg \in Lines
       \/ op = "methods" /\ arg \in Endpoints \X Others
       \/ op = "reverse_url" /\ arg \in UrlRequests
       \/ op = "requests_get" /\ arg \in GetRequests
    /\ ret = IF op = "methods" THEN Constructed(arg) ELSE NoRet

\* endpoint(value) on a line
Call_endpoint ==
    /\ pc = "call" /\ op = "endpoint"
    /\ ret' = endpoint(arg)
    /\ pc' = "return"
    /\ UNCHANGED <<op, arg>>

\* endpoint(e.inline()) on a constructed endpoint
Call_inline_endpoint ==
    /\ pc = "call" /\ op = "inline_endpoint"
    /\ ret' = endpoint(inline(arg))
    /\ pc' = "return"
    /\ UNCHANGED <<op, arg>>

\* e.conn_handler(session, proxy)
Call_conn_handler ==
    /\ pc = "call" /\ op = "conn_handler"
    /\ ret' = conn_handler(arg)
    /\ pc' = "return"
    /\ UNCHANGED <<op, arg>>

\* Peer.from_signed_raw(raw)
Call_from_signed_raw ==
    /\ pc = "call" /\ op = "from_signed_raw"
    /\ ret' = Peer_from_signed_raw(arg)
    /\ pc' = "return"
    /\ UNCHANGED <<op, arg>>

\* peer = Peer.from_signed_raw(raw); Peer.from_signed_raw(peer.signed_raw())
Call_signed_raw_round_trip ==
    /\ pc = "call" /\ op = "signed_raw_round_trip"
    /\ LET peer == Peer_from_signed_raw(arg)
       IN  ret' = [peer |-> peer,
                   from_rendered_peer |-> IF peer.raised = ""
                                          THEN Peer_from_signed_raw(Peer_signed_raw(peer.value))
                                          ELSE peer]
    /\ pc' = "return"
    /\ UNCHANGED <<op, arg>>

\* a == b on two endpoints: type(a).__eq__(a, b)
Call_eq ==
    /\ pc = "call" /\ op = "eq"
    /\ ret' = Return(eq(arg[1], arg[2]))
    /\ pc' = "return"
    /\ UNCHANGED <<op, arg>>

\* endpoint(line).conn_handler(): the connection target of a parsed endpoint
Call_endpoint_conn_handler ==
    /\ pc = "call" /\ op = "endpoint_conn_handler"
    /\ ret' = LET e == endpoint(arg)
              IN  IF e.raised # "" THEN e ELSE conn_handler(e.value)
    /\ pc' = "return"
    /\ UNCHANGED <<op, arg>>

\* one more call on the live instances
Call_inline ==
    /\ op = "methods"
    /\ \E self \in 1..Len(ret.objects) : ret' = call(ret.objects, "inline", self, 0)
    /\ pc' = "return"
    /\ UNCHANGED <<op, arg>>

Call_str ==
    /\ op = "methods"
    /\ \E self \in 1..Len(ret.objects) : ret' = call(ret.objects, "__str__", self, 0)
    /\ pc' = "return"
    /\ UNCHANGED <<op, arg>>

Call_eq_live ==
    /\ op = "methods"
    /\ \E self \in 1..Len(ret.objects), other \in 1..Len(ret.objects) :
           ret' = call(ret.objects, "__eq__", self, other)
    /\ pc' = "return"
    /\ UNCHANGED <<op, arg>>

Call_hash ==
    /\ op = "methods"
    /\ \E self \in 1..Len(ret.objects) : ret' = call(ret.objects, "__hash__", self, 0)
    /\ pc' = "return"
    /\ UNCHANGED <<op, arg>>

Call_conn_handler_live ==
    /\ op = "methods"
    /\ \E self \in 1..Len(ret.objects) : ret' = call(ret.objects, "conn_handler", self, 0)
    /\ pc' = "return"
    /\ UNCHANGED <<op, arg>>

Call_endpoint_instance ==
    /\ op = "methods"
    /\ \E self \in 1..Len(ret.objects) : ret' = call(ret.objects, "endpoint", self, 0)
    /\ pc' = "return"
    /\ UNCHANGED <<op, arg>>

\* api.reverse_url(scheme, path)
Call_reverse_url ==
    /\ pc = "call" /\ op = "reverse_url"
    /\ ret' = Return(API_reverse_url(arg.self, arg.scheme, arg.path))
    /\ pc' = "return"
    /\ UNCHANGED <<op, arg>>

\* await api.requests_get(path)
Call_requests_get ==
    /\ pc = "call" /\ op = "requests_get"
    /\ ret' = API_requests_get(arg.self, arg.path, arg.response)
    /\ pc' = "return"
    /\ UNCHANGED <<op, arg>>

Next ==
    \/ Call_endpoint
    \/ Call_inline_endpoint
    \/ Call_conn_handler
    \/ Call_from_signed_raw
    \/ Call_signed_raw_round_trip
    \/ Call_eq
    \/ Call_endpoint_conn_handler
    \/ Call_inline
    \/ Call_str
    \/ Call_eq_live
    \/ Call_hash
    \/ Call_conn_handler_live
    \/ Call_endpoint_instance
    \/ Call_reverse_url
    \/ Call_requests_get

Spec == Init /\ [][Next]_vars

(***************************************************************************)
(* Vocabulary of the properties.                                           *)
(***************************************************************************)
Returned(f) == pc = "return" /\ op = f

\* the index of the first non-empty piece of a line, 0 when there is none
FirstTokenAt(line) ==
    IF \E i \in 1..Len(line) : line[i] # ""
    THEN CHOOSE i \in 1..Len(line) : line[i] # "" /\ \A j \in 1..(i - 1) : line[j] = ""
    ELSE 0
HasToken(line) == FirstTokenAt(line) # 0
\* the leading whitespace-delimited token
LeadingToken(line) == line[FirstTokenAt(line)]
\* the whitespace-delimited tokens after the leading one
RemainingTokens(line) ==
    SelectSeq(SubSeq(line, FirstTokenAt(line) + 1, Len(line)), LAMBDA t : t # "")
CarriesKnownTag(line) == HasToken(line) /\ LeadingToken(line) \in KnownTags

\* the variant registered for a tag, UnknownEndpoint for any other token
RegisteredVariant(tag) ==
    CASE tag = BMA_API -> "BMAEndpoint"
      [] tag = BMAS_API -> "SecuredBMAEndpoint"
      [] tag = WS2P_API -> "WS2PEndpoint"
      [] tag = ES_CORE_API -> "ESCoreEndpoint"
      [] tag = ES_USER_API -> "ESUserEndpoint"
      [] tag = ES_SUBSCRIPTION_API -> "ESSubscribtionEndpoint"
      [] OTHER -> "UnknownEndpoint"

Present(x) == x # None
\* the variants registered under a tag
KnownVariants == {RegisteredVariant(tag) : tag \in KnownTags}

(***************************************************************************)
(* C1.  Endpoint round trip: for every constructed endpoint e of every     *)
(* variant, endpoint(e.inline()) returns an endpoint of the same variant   *)
(* that is equal to e, port 0 and absent optional fields included.         *)
(***************************************************************************)
C1_EndpointRoundTrip ==
    Returned("inline_endpoint") =>
        /\ ret.raised = ""
        /\ ret.value.type = arg.type
        /\ eq(ret.value, arg)

(***************************************************************************)
(* C2.  Document round trip: when Peer.from_signed_raw(raw) returns a      *)
(* document, parsing its signed_raw() returns a document with the same     *)
(* version, currency, pubkey and blockid, equal endpoints of the same      *)
(* variant at each index, and the same signatures in the same order.       *)
(***************************************************************************)
C2_DocumentRoundTrip ==
    (Returned("signed_raw_round_trip") /\ ret.peer.raised = "") =>
        /\ ret.from_rendered_peer.raised = ""
        /\ LET a == ret.peer.value
               b == ret.from_rendered_peer.value
           IN  /\ b.version = a.version /\ b.currency = a.currency
               /\ b.pubkey = a.pubkey /\ b.blockid = a.blockid
               /\ Len(b.endpoints) = Len(a.endpoints)
               /\ \A i \in 1..Len(a.endpoints) :
                      /\ b.endpoints[i].type = a.endpoints[i].type
                      /\ eq(b.endpoints[i], a.endpoints[i])
               /\ b.signatures = a.signatures

(***************************************************************************)
(* C3.  Endpoint/signature split: for a document with a well-formed header *)
(* whose Endpoints: marker is followed by n well-formed endpoint lines and *)
(* then m >= 1 signature lines, Peer.from_signed_raw returns exactly the n *)
(* endpoints in source order, each of the variant its leading tag dictates *)
(* (UnknownEndpoint for an unregistered tag), and exactly the m signatures *)
(* in source order.                                                        *)
(***************************************************************************)
\* the endpoint lines of the model that fit the grammar table: a tag and its fields
WellFormedEndpointLines == DocLines \ {<<WS2P_API, AWs2pId, DnsName>>}
\* the port of such a line: its last piece, or the one before a trailing path
PortPiece(line) == IF IsDigits(line[Len(line)]) THEN line[Len(line)] ELSE line[Len(line) - 1]
WellFormedSignatureLine(line) == Len(line) = 1 /\ line[1] \in {ASignature, BSignature}
WellFormedDocument(raw, n) ==
    /\ SubSeq(raw, 1, 6) = Header("1", "Peer", "Endpoints:")
    /\ n \in 0..(Len(raw) - 7)
    /\ \A i \in 7..(6 + n) : raw[i] \in WellFormedEndpointLines
    /\ \A i \in (7 + n)..Len(raw) : WellFormedSignatureLine(raw[i])

C4_FallbackTotalOnNonEmptyLines ==
    (Returned("endpoint") /\ ~CarriesKnownTag(arg)) =>
        IF arg = <<"">>
        THEN ret.raised = "MalformedDocumentError"
        ELSE /\ ret.raised = ""
             /\ ret.value.type = "UnknownEndpoint"
             /\ ret.value.api = LeadingToken(arg)
             /\ ret.value.properties = RemainingTokens(arg)

(***************************************************************************)
(* C4, amended.  On every line that holds at least one token and does not  *)
(* carry a known tag, endpoint(line) returns an UnknownEndpoint whose api  *)
(* is the first whitespace-delimited token and whose properties are the    *)
(* remaining tokens in order; on a line that holds no token (the empty     *)
(* line or a line of spaces only) it raises MalformedDocumentError.        *)
(***************************************************************************)
C4_FallbackTotalOnLinesWithAToken ==
    (Returned("endpoint") /\ ~CarriesKnownTag(arg)) =>
        IF ~HasToken(arg)
        THEN ret.raised = "MalformedDocumentError"
        ELSE /\ ret.raised = ""
             /\ ret.value.type = "UnknownEndpoint"
             /\ ret.value.api = LeadingToken(arg)
             /\ ret.value.properties = RemainingTokens(arg)

C4_Witness ==
    /\ Returned("endpoint")
    /\ arg = <<"", "OTHER_PROTOCOL", GoodIPv4, "9001">>
    /\ ret.value.api = "OTHER_PROTOCOL"
    /\ ret.value.properties = <<GoodIPv4, "9001">>

(***************************************************************************)
(* C5.  Tag exactness: for every line on which endpoint(line) returns, the *)
(* variant returned is the one registered for exactly the leading          *)
(* whitespace-delimited token (UnknownEndpoint for a token that is no      *)
(* registered tag), and at most one entry of MANAGED_API accepts the line, *)
(* so the order of iteration does not matter.                              *)
(***************************************************************************)
C5_TagExactness ==
    (Returned("endpoint") /\ ret.raised = "") =>
        /\ ret.value.type = RegisteredVariant(LeadingToken(arg))
        /\ Cardinality(Hits(arg)) <= 1

(***************************************************************************)
(* C6.  Strict grammar for known tags: when the leading token of a line is *)
(* a known tag, endpoint(line) either returns an endpoint of the variant   *)
(* registered for the tag or raises MalformedDocumentError, never another  *)
(* error and never an UnknownEndpoint; the tag alone, a BASIC_MERKLED_API  *)
(* or BMAS line without a port and a WS2P line without a port raise        *)
(* MalformedDocumentError.                                                 *)
(***************************************************************************)
C6_StrictGrammarForKnownTags ==
    (Returned("endpoint") /\ CarriesKnownTag(arg)) =>
        /\ ret.raised \in {"", "MalformedDocumentError"}
        /\ ret.raised = "" => ret.value.type = RegisteredVariant(LeadingToken(arg))
        /\ RemainingTokens(arg) = <<>> => ret.raised = "MalformedDocumentError"
        /\ (\A i \in 1..Len(RemainingTokens(arg)) : ~IsDigits(RemainingTokens(arg)[i]))
               => ret.raised = "MalformedDocumentError"

(***************************************************************************)
(* C7.  Invalid IPv4 octet: a BASIC_MERKLED_API line that holds the token  *)
(* 999.1.1.1 raises MalformedDocumentError; the token is accepted in no    *)
(* field, the server name included.                                        *)
(***************************************************************************)
C7_InvalidIPv4OctetRejected ==
    (Returned("endpoint") /\ arg[1] = BMA_API /\ \E i \in 2..Len(arg) : arg[i] = BadIPv4) =>
        ret.raised = "MalformedDocumentError"

(***************************************************************************)
(* C8.  Address priority: the host of the connection handler of a          *)
(* BMAEndpoint or SecuredBMAEndpoint is the server name when there is one, *)
(* otherwise the IPv6 literal in brackets when there is one, otherwise the *)
(* IPv4 literal.                                                           *)
(***************************************************************************)
C8_AddressPriority ==
    (Returned("conn_handler") /\ arg.type \in {"BMAEndpoint", "SecuredBMAEndpoint"}) =>
        /\ ret.raised = ""
        /\ Present(arg.server) => ret.value.server = arg.server
        /\ (~Present(arg.server) /\ Present(arg.ipv6)) =>
               ret.value.server = "[" \o arg.ipv6 \o "]"
        /\ (~Present(arg.server) /\ ~Present(arg.ipv6) /\ Present(arg.ipv4)) =>
               ret.value.server = arg.ipv4

C8_Witness ==
    /\ Returned("conn_handler")
    /\ arg.type = "SecuredBMAEndpoint"
    /\ arg.server = None /\ arg.ipv4 = GoodIPv4 /\ arg.ipv6 = AnIPv6
    /\ ret.value.server = "[2001:0db8:0000:85a3:0000:0000:ac1f]"

(***************************************************************************)
(* C9.  Scheme selection: the connection handler of a BMAEndpoint carries  *)
(* (http, ws); that of a SecuredBMAEndpoint, a WS2PEndpoint or one of the  *)
(* three ES endpoints carries (https, wss), whatever the fields.           *)
(***************************************************************************)
C9_SchemeByVariant ==
    (Returned("conn_handler") /\ arg.type # "UnknownEndpoint") =>
        /\ ret.raised = ""
        /\ arg.type = "BMAEndpoint" =>
               ret.value.http_scheme = "http" /\ ret.value.ws_scheme = "ws"
        /\ arg.type # "BMAEndpoint" =>
               ret.value.http_scheme = "https" /\ ret.value.ws_scheme = "wss"

C9_Witness ==
    /\ Returned("conn_handler")
    /\ arg.type = "WS2PEndpoint"
    /\ arg.port = 0 /\ arg.path = APath
    /\ ret.value.http_scheme = "https" /\ ret.value.ws_scheme = "wss"

(***************************************************************************)
(* C10.  Unknown has no connection target: conn_handler of an              *)
(* UnknownEndpoint raises UnsupportedEndpoint and returns no handler.      *)
(***************************************************************************)
C10_UnknownHasNoConnectionTarget ==
    (Returned("conn_handler") /\ arg.type = "UnknownEndpoint") =>
        ret.raised = "UnsupportedEndpoint"

(***************************************************************************)
(* C11.  Different variants are never equal: for two endpoints a and b of  *)
(* different variants, a == b is false (and so is b == a, the pair taken   *)
(* in the other order).                                                    *)
(***************************************************************************)
C11_DifferentVariantsNeverEqual ==
    (Returned("eq") /\ arg[1].type # arg[2].type) => ret.value = FALSE

(***************************************************************************)
(* C12.  Structural equality within a variant: two endpoints of the same   *)
(* variant are equal if and only if every field of the variant is equal.   *)
(***************************************************************************)
C12_StructuralEqualityWithinVariant ==
    (Returned("eq") /\ arg[1].type = arg[2].type) => (ret.value <=> arg[1] = arg[2])

\* the endpoint parsed from the line of the call, when the parse succeeded
Parsed(variants) ==
    /\ Returned("endpoint_conn_handler")
    /\ endpoint(arg).raised = ""
    /\ endpoint(arg).value.type \in variants

(***************************************************************************)
(* C13.  Basic/SecuredBasic well-formedness: every BMAEndpoint or          *)
(* SecuredBMAEndpoint returned by a successful parse has at least one of   *)
(* server, ipv4, ipv6 present, and its conn_handler never yields an absent *)
(* host.                                                                   *)
(***************************************************************************)
C13_ParsedBasicHasAddress ==
    Parsed({"BMAEndpoint", "SecuredBMAEndpoint"}) =>
        /\ \/ Present(endpoint(arg).value.server)
           \/ Present(endpoint(arg).value.ipv4)
           \/ Present(endpoint(arg).value.ipv6)
        /\ ret.raised = ""
        /\ Present(ret.value.server)

\* the variants that carry a path
WithPath == {"SecuredBMAEndpoint", "WS2PEndpoint"}
\* no piece of the line is a path
NoPathPiece(line) == \A i \in 1..Len(line) : ~IsPath(line[i])

(***************************************************************************)
(* C14.  Port and path pass-through: for every endpoint of a known         *)
(* variant, constructed or parsed, the target of conn_handler has the      *)
(* endpoint's port and the endpoint's path; the target's path is the empty *)
(* string for the variants without a path, and for a SecuredBMAEndpoint or *)
(* WS2PEndpoint parsed from a line with no path.                           *)
(***************************************************************************)
C14_PortAndPathPassThrough ==
    /\ (Returned("conn_handler") /\ arg.type # "UnknownEndpoint") =>
           /\ ret.raised = ""
           /\ ret.value.port = arg.port
           /\ arg.type \in WithPath => ret.value.path = arg.path
           /\ arg.type \notin WithPath => ret.value.path = ""
    /\ Parsed(KnownVariants) =>
           /\ ret.raised = ""
           /\ ret.value.port = endpoint(arg).value.port
           /\ endpoint(arg).value.type \in WithPath =>
                  /\ ret.value.path = endpoint(arg).value.path
                  /\ NoPathPiece(arg) => ret.value.path = ""
                  /\ ~NoPathPiece(arg) => ret.value.path = APath
           /\ endpoint(arg).value.type \notin WithPath => ret.value.path = ""

C14_Witness ==
    /\ Parsed({"SecuredBMAEndpoint"})
    /\ arg = <<BMAS_API, DnsName, "9001">>
    /\ ret.value.port = 9001 /\ ret.value.path = ""

(***************************************************************************)
(* C15.  Immutability: after any sequence of calls to inline, __str__,     *)
(* __eq__, __hash__ and conn_handler on live endpoints, and of             *)
(* endpoint(value) on an existing instance, every field of every endpoint  *)
(* has the value it had at construction; endpoint(value) returns the same  *)
(* instance; and a call gives what it gives on the freshly constructed     *)
(* endpoints, whatever was called before it.                               *)
(***************************************************************************)
C15_Immutability ==
    op = "methods" =>
        /\ ret.objects = arg
        /\ ret.method \in Methods =>
               ret.result = call(arg, ret.method, ret.self, ret.other).result
        /\ ret.method = "endpoint" => ret.result = Return([ref |-> ret.self])

C15_Witness ==
    /\ op = "methods"
    /\ ret.method = "conn_handler"
    /\ ret.objects[ret.self].type = "SecuredBMAEndpoint"
    /\ ret.objects[ret.self].path = None
    /\ ret.result.value.path = None

\* the number of parts of a URL that are the string t
Occurrences(url, t) == Cardinality({i \in 1..Len(url) : url[i] = t})

(***************************************************************************)
(* C16.  URL construction keeps the connection target's path: with a       *)
(* non-empty handler path reverse_url(scheme, request_path) is             *)
(* scheme://server:port/<handler path>/<module> followed by request_path,  *)
(* with an empty handler path it is scheme://server:port/<module> followed *)
(* by request_path, and request_path appears exactly once in the URL.      *)
(***************************************************************************)
C16_UrlKeepsHandlerPath ==
    Returned("reverse_url") =>
        LET h == arg.self.connection_handler
            base == arg.scheme \o "://" \o format(h.server) \o ":" \o str(h.port)
        IN  /\ Truthy(h.path) =>
                   concat(ret.value) = base \o "/" \o h.path \o "/" \o arg.self.module \o arg.path
            /\ ~Truthy(h.path) =>
                   concat(ret.value) = base \o "/" \o arg.self.module \o arg.path
            /\ Occurrences(ret.value, arg.path) = 1

\* the body is JSON matching the error schema: an object with a number ucode
\* and a string message
MatchesErrorSchema(body) ==
    body.is_json /\ body.type = "object" /\ body.ucode = "number" /\ body.message = "string"

(***************************************************************************)
(* C17.  requests_get never returns a non-200 response: at status 200 it   *)
(* returns the response; at any other status it raises, DuniterError       *)
(* carrying the parsed body when the body is JSON matching the error       *)
(* schema, ValueError when the body is not JSON or does not match.         *)
(***************************************************************************)
C17_Non200AlwaysRaises ==
    Returned("requests_get") =>
        /\ arg.response.status = 200 => ret = Return(arg.response)
        /\ arg.response.status # 200 =>
               /\ ret.raised # ""
               /\ MatchesErrorSchema(arg.response.text) =>
                      /\ ret.raised = "DuniterError"
                      /\ ret.value = [type |-> "object", ucode |-> "number",
                                      message |-> "string"]
               /\ ~MatchesErrorSchema(arg.response.text) => ret = Raise("ValueError")

C17_Witness ==
    /\ Returned("requests_get")
    /\ arg.response.status = 404
    /\ arg.response.text = Body(TRUE, "object", "number", "absent")
    /\ ret.raised = "ValueError"

====
